---------------------------- MODULE Spec2Model ----------------------------
(***************************************************************************)
(* Model of streamlit_app/utils/edit_powerpoint.py: the tariff model, the  *)
(* billing calculator, the money formatter, the placeholder dispatch of   *)
(* PowerPointUpdater and the powerpoint_edit pipeline.                     *)
(*                                                                         *)
(* Python floats are modelled as binary floating-point numbers <<m, e>>    *)
(* (value m * 2^e) with a FloatBits-bit significand and round-half-to-even *)
(* after every operation, as IEEE 754 does with 53 bits.  Exponents are   *)
(* unbounded: no value of the program comes near overflow or underflow.   *)
(* Zero is unsigned: the program never exposes a negative zero.            *)
(***************************************************************************)
EXTENDS Integers, Sequences, FiniteSets, TLC

\* ------------------------------------------------------------------------
\* Bounds of the model
\* ------------------------------------------------------------------------

\* significand width of the modelled floats (53 in CPython)
FloatBits == 10

\* ------------------------------------------------------------------------
\* Floating-point arithmetic (Python float: +, -, *, /, round)
\* ------------------------------------------------------------------------

Abs(n) == IF n < 0 THEN -n ELSE n

Sgn(n) == IF n < 0 THEN -1 ELSE 1

RECURSIVE BitLen(_)
BitLen(n) == IF n = 0 THEN 0 ELSE 1 + BitLen(n \div 2)

\* quotient q and remainder r of a division by d, rounded half to even
RoundHalfEven(q, r, d) ==
    IF (2 * r > d) \/ (2 * r = d /\ q % 2 = 1) THEN q + 1 ELSE q

\* n / d rounded to the nearest integer, ties to even (d > 0)
RoundDiv(n, d) == Sgn(n) * RoundHalfEven(Abs(n) \div d, Abs(n) % d, d)

\* 1 when the division n / d is inexact
Sticky(n, d) == IF n % d # 0 THEN 1 ELSE 0

FZero == <<0, 0>>

\* n * 2^e with k bits too many, its significand rounded to q
FNormQ(n, e, k, q) ==
    IF q = 2^FloatBits
    THEN <<Sgn(n) * 2^(FloatBits - 1), e + k + 1>>
    ELSE <<Sgn(n) * q, e + k>>

FNormK(n, e, k) ==
    IF k <= 0 THEN <<n * 2^(-k), e + k>>
    ELSE FNormQ(n, e, k, RoundDiv(Abs(n), 2^k))

\* the float nearest to n * 2^e, normalised so that the top bit is set
FNorm(n, e) ==
    IF n = 0 THEN FZero ELSE FNormK(n, e, BitLen(Abs(n)) - FloatBits)

\* int -> float
FromInt(n) == FNorm(n, 0)

\* num / den from the quotient of num * 2^s by den, with a sticky bit
FromRatioS(num, den, s) ==
    FNorm(Sgn(num) * (2 * ((Abs(num) * 2^s) \div den) + Sticky(Abs(num) * 2^s, den)),
          -s - 1)

ShiftFor(d0) == IF d0 > 0 THEN d0 ELSE 0

\* the float nearest to num / den (int / int, or a decimal literal)
FromRatio(num, den) ==
    IF num = 0 THEN FZero
    ELSE FromRatioS(num, den,
                    ShiftFor(FloatBits + 2 + BitLen(den) - BitLen(Abs(num))))

FNeg(a) == <<-a[1], a[2]>>

\* hi + lo for nonzero floats, hi of the larger exponent
FAddAligned(hi, lo) ==
    IF hi[2] - lo[2] > FloatBits + 1 THEN hi
    ELSE FNorm(hi[1] * 2^(hi[2] - lo[2]) + lo[1], lo[2])

FAdd(a, b) ==
    IF a[1] = 0 THEN b
    ELSE IF b[1] = 0 THEN a
    ELSE IF a[2] >= b[2] THEN FAddAligned(a, b) ELSE FAddAligned(b, a)

FSub(a, b) == FAdd(a, FNeg(b))

FMul(a, b) == FNorm(a[1] * b[1], a[2] + b[2])

FDiv(a, b) ==
    IF a[1] = 0 THEN FZero
    ELSE FNorm(Sgn(a[1]) * Sgn(b[1])
                 * (2 * ((Abs(a[1]) * 2^(FloatBits + 2)) \div Abs(b[1]))
                    + Sticky(Abs(a[1]) * 2^(FloatBits + 2), Abs(b[1]))),
               a[2] - b[2] - (FloatBits + 2) - 1)

FIsNeg(a) == a[1] < 0

\* round-half-even of (x * scale) to an integer, from the exact binary value
FScaled(x, scale) ==
    IF x[2] >= 0 THEN x[1] * 2^x[2] * scale
    ELSE IF -x[2] > 30 THEN 0
    ELSE RoundDiv(x[1] * scale, 2^(-x[2]))

\* round(x, 4)
Round4(x) == FromRatio(FScaled(x, 10000), 10000)

\* ------------------------------------------------------------------------
\* TarifaConstants
\* ------------------------------------------------------------------------

TE_ENEL_CE == FromRatio(27291, 100000)

TUSD_ENEL_CE == FromRatio(44929, 100000)

ICMS == FromRatio(2, 10)

PISCOF == FromRatio(5, 100)

FOne == FromInt(1)

\* (1 - cls.ICMS) * (1 - cls.PISCOF)
TaxDivisor == FMul(FSub(FOne, ICMS), FSub(FOne, PISCOF))

tarifa_de_aplicacao == FAdd(TE_ENEL_CE, TUSD_ENEL_CE)

tarifa_fornecida == Round4(FDiv(tarifa_de_aplicacao, TaxDivisor))

tarifa_injetada_compartilhada ==
    FAdd(FDiv(TE_ENEL_CE, TaxDivisor), FDiv(TUSD_ENEL_CE, FSub(FOne, PISCOF)))

tarifa_injetada_real == Round4(tarifa_injetada_compartilhada)

impostos_n_compoensaveis == FSub(tarifa_fornecida, tarifa_injetada_real)

\* ------------------------------------------------------------------------
\* FinancialCalculator
\* ------------------------------------------------------------------------

ConnectionTypes == {"Trifásico", "Monofásico", "Bifásico"}

\* Allowance with the Monofásico and Bifásico allowances exchanged
AllowanceSwapped(disponibility_cost) ==
    IF disponibility_cost = "Trifásico" THEN 100
    ELSE IF disponibility_cost = "Monofásico" THEN 50
    ELSE IF disponibility_cost = "Bifásico" THEN 30
    ELSE 0

\* the if / elif chain on disponibility_cost: the kWh allowance of the
\* minimum cost (0 where the chain reaches its else branch)
Allowance(disponibility_cost) ==
    IF disponibility_cost = "Trifásico" THEN 100
    ELSE IF disponibility_cost = "Monofásico" THEN 30
    ELSE IF disponibility_cost = "Bifásico" THEN 50
    ELSE 0

\* BillRaises with the else branch falling through instead of raising
BillNeverRaises(disponibility_cost) == FALSE

\* the else branch: raise ValueError("Custo de disponibilidade inválido.")
BillRaises(disponibility_cost) ==
    /\ disponibility_cost # "Trifásico"
    /\ disponibility_cost # "Monofásico"
    /\ disponibility_cost # "Bifásico"

\* energy_cost = (energy_consumption - (n_ucs * 100)) * tarifa_injetada_real
EnergyCost(energy_consumption, n_ucs) ==
    FMul(FromInt(energy_consumption - (n_ucs * 100)), tarifa_injetada_real)

\* min_cost = <allowance> * n_ucs * tarifas_fornecida
MinCost(disponibility_cost, n_ucs) ==
    FMul(FromInt(Allowance(disponibility_cost) * n_ucs), tarifa_fornecida)

\* taxes = (energy_consumption - n_ucs * 100) * tarifas_impostos
Taxes(energy_consumption, n_ucs) ==
    FMul(FromInt(energy_consumption - n_ucs * 100), impostos_n_compoensaveis)

\* the dict calculate_bill_before returns
BillBefore(energy_cost, min_cost, public_ilumination_cost, taxes) ==
    [energia |-> energy_cost,
     minimo |-> min_cost,
     iluminacao |-> public_ilumination_cost,
     impostos |-> taxes,
     total |-> FAdd(FAdd(FAdd(energy_cost, min_cost), public_ilumination_cost),
                    taxes)]

\* calculate_bill_before, for a recognised disponibility_cost
calculate_bill_before(pic, disponibility_cost, energy_consumption, n_ucs) ==
    BillBefore(EnergyCost(energy_consumption, n_ucs),
               MinCost(disponibility_cost, n_ucs),
               FromInt(pic),
               Taxes(energy_consumption, n_ucs))

\* energy_cost_discounted = energy_cost * (1 - (bill_discount/100))
EnergyCostDiscounted(energy_cost, bill_discount) ==
    FMul(energy_cost, FSub(FOne, FromRatio(bill_discount, 100)))

\* the value calculate_bill_after returns under the key 'valor em energia'
AfterEnergyField(energy_cost, energy_cost_discounted) == energy_cost

\* the dict calculate_bill_after returns, from enel_bill
BillAfter(enel_bill, bill_discount) ==
    [energia |-> AfterEnergyField(enel_bill.energia,
                    EnergyCostDiscounted(enel_bill.energia, bill_discount)),
     minimo |-> enel_bill.minimo,
     iluminacao |-> enel_bill.iluminacao,
     impostos |-> enel_bill.impostos,
     total |-> FAdd(FAdd(FAdd(enel_bill.impostos, enel_bill.iluminacao),
                         enel_bill.minimo),
                    EnergyCostDiscounted(enel_bill.energia, bill_discount))]

\* calculate_bill_after
calculate_bill_after(pic, disponibility_cost, energy_consumption, n_ucs, bill_discount) ==
    BillAfter(calculate_bill_before(pic, disponibility_cost, energy_consumption, n_ucs),
              bill_discount)

\* ------------------------------------------------------------------------
\* Strings (str.startswith, str.strip, str.replace, slicing, formatting)
\* ------------------------------------------------------------------------

startswith(text, prefix) ==
    Len(text) >= Len(prefix) /\ SubSeq(text, 1, Len(prefix)) = prefix

Whitespace == {" ", "\n", "\t"}

RECURSIVE LStrip(_)
LStrip(s) ==
    IF s = "" THEN s
    ELSE IF Head(s) \in Whitespace THEN LStrip(Tail(s)) ELSE s

RECURSIVE RStrip(_)
RStrip(s) ==
    IF s = "" THEN s
    ELSE IF SubSeq(s, Len(s), Len(s)) \in Whitespace
         THEN RStrip(SubSeq(s, 1, Len(s) - 1)) ELSE s

\* str.strip()
strip(s) == RStrip(LStrip(s))

\* s.replace(a, b) for one-character a
RECURSIVE replace(_, _, _)
replace(s, a, b) ==
    IF s = "" THEN s
    ELSE (IF Head(s) = a THEN b ELSE Head(s)) \o replace(Tail(s), a, b)

\* text[:20]
Snippet(text) == IF Len(text) > 20 THEN SubSeq(text, 1, 20) ELSE text

DigitStr(d) == SubSeq("0123456789", d + 1, d + 1)

RECURSIVE NatStr(_)
NatStr(n) == IF n < 10 THEN DigitStr(n) ELSE NatStr(n \div 10) \o DigitStr(n % 10)

\* str(n) of an int
IntStr(n) == IF n < 0 THEN "-" \o NatStr(-n) ELSE NatStr(n)

Pad2(n) == DigitStr((n \div 10) % 10) \o DigitStr(n % 10)

Pad3(n) == DigitStr((n \div 100) % 10) \o Pad2(n)

\* the ',' grouping of the integer part
RECURSIVE Grouped(_)
Grouped(n) ==
    IF n < 1000 THEN NatStr(n) ELSE Grouped(n \div 1000) \o "," \o Pad3(n % 1000)

\* f"{value:,.2f}": correctly rounded to two decimals; the sign is the
\* value's, also when the magnitude rounds to zero
Comma2f(negative, cents) ==
    (IF negative THEN "-" ELSE "")
    \o Grouped(cents \div 100) \o "." \o Pad2(cents % 100)

FormatComma2f(value) ==
    Comma2f(FIsNeg(value), FScaled(<<Abs(value[1]), value[2]>>, 100))

\* TextFormatter.format_money_br
format_money_br(value) ==
    replace(replace(replace(FormatComma2f(value), ",", "X"), ".", ","), "X", ".")

\* datetime.datetime.now().strftime('%d/%m/%Y'), for day `today` of one month
strftime(today) == Pad2(today) \o "/01/2025"

\* ------------------------------------------------------------------------
\* The document (python-pptx): presentation = sequence of slides, slide =
\* sequence of shapes, text frame = sequence of paragraphs of runs.
\* font_name "" and font_size 0 stand for None (inherited).
\* fault names what the document does when the shape is written:
\*   "none"   nothing raises
\*   "frame"  shape.text_frame raises
\*   "font"   assigning font.name raises
\* A shape of shape_type "UNSUPPORTED" raises NotImplementedError when
\* shape.shape_type is read.
\* ------------------------------------------------------------------------

Run(t) == [text |-> t, font_name |-> "Calibri", font_size |-> 18]

Para(runs) == [alignment |-> "NONE", font_name |-> "", font_size |-> 0, runs |-> runs]

TextBox(paras) ==
    [shape_type |-> "TEXT_BOX", has_text_frame |-> TRUE, word_wrap |-> FALSE,
     paragraphs |-> paras, fault |-> "none"]

RECURSIVE RunsText(_)
RunsText(runs) ==
    IF runs = <<>> THEN "" ELSE Head(runs).text \o RunsText(Tail(runs))

\* TextFrame.text: the paragraphs' texts joined by "\n"
RECURSIVE ParasText(_)
ParasText(paras) ==
    IF paras = <<>> THEN ""
    ELSE IF Len(paras) = 1 THEN RunsText(paras[1].runs)
    ELSE RunsText(paras[1].runs) \o "\n" \o ParasText(Tail(paras))

\* shape.text
ShapeText(shape) == ParasText(shape.paragraphs)

\* ------------------------------------------------------------------------
\* TextFormatter
\* ------------------------------------------------------------------------

\* format_text: run.alignment = PP_ALIGN.CENTER sets an attribute of the
\* run proxy object, which the document does not hold
format_text(run, text, font_name, font_size, align_center) ==
    [run EXCEPT !.text = text, !.font_name = font_name, !.font_size = font_size]

\* the first paragraph after update_text_shape wrote text1 into it
\* p.alignment = PP_ALIGN.CENTER, if center_align
Aligned(p, center_align) ==
    IF center_align THEN [p EXCEPT !.alignment = "CENTER"] ELSE p

\* p.text = text1: the paragraph's runs become one run of no formatting
SetParagraphText(p, text1) ==
    [p EXCEPT !.runs = <<[text |-> text1, font_name |-> "", font_size |-> 0]>>]

UpdatedParagraph(p, text1, font1, size1, center_align) ==
    IF p.runs # <<>>
    THEN [Aligned(p, center_align) EXCEPT !.runs[1] =
             format_text(p.runs[1], text1, font1, size1, center_align)]
    ELSE [SetParagraphText(Aligned(p, center_align), text1) EXCEPT
             !.font_name = font1,
             !.font_size = size1]

\* the first paragraph when the font assignment raised: the text (and the
\* alignment) were written before it
HalfUpdatedParagraph(p, text1, center_align) ==
    IF p.runs # <<>>
    THEN [Aligned(p, center_align) EXCEPT !.runs[1].text = text1]
    ELSE SetParagraphText(Aligned(p, center_align), text1)

\* TextFormatter.update_text_shape with text2 = None, as every caller has it:
\* the shape afterwards, and whether an exception left the call
update_text_shape(shape, text1, font1, size1, center_align) ==
    IF shape.fault = "frame" THEN [shape |-> shape, raised |-> TRUE]
    ELSE IF shape.paragraphs = <<>>
    THEN [shape |-> [shape EXCEPT !.word_wrap = TRUE], raised |-> FALSE]
    ELSE IF shape.fault = "font"
    THEN [shape |-> [shape EXCEPT
                        !.word_wrap = TRUE,
                        !.paragraphs[1] = HalfUpdatedParagraph(@, text1, center_align)],
          raised |-> TRUE]
    ELSE [shape |-> [shape EXCEPT
                        !.word_wrap = TRUE,
                        !.paragraphs[1] =
                            UpdatedParagraph(@, text1, font1, size1, center_align)],
          raised |-> FALSE]

\* ------------------------------------------------------------------------
\* PowerPointUpdater._update_text_shape: the placeholder dispatch
\* ------------------------------------------------------------------------

Rule(pattern, field, mult, font, size, center) ==
    [pattern |-> pattern, field |-> field, mult |-> mult,
     font |-> font, size |-> size, center |-> center]

\* the leading `if`
ClienteRule == Rule("CLIENTE: PPPPPP", "cliente", 1, "Arial", 24, FALSE)

\* ChainRules with the date also written by the "XX%" rule
ChainRulesDateTwice == <<
    Rule("DATA: DDDDDDD", "data", 1, "Arial", 24, FALSE),
    Rule("XX%", "data", 1, "Inter Bold", 20, TRUE),
    Rule("YY%", "desconto", 1, "Inter Bold", 21, TRUE),
    Rule("R$ AAAA", "antes.total", 1, "Inter Bold", 26, TRUE),
    Rule("R$ AAAB", "antes.total", 1, "Inter Bold", 21, TRUE),
    Rule("R$ BBBB", "antes.minimo", 1, "Inter Bold", 21, TRUE),
    Rule(" R$ aBBa", "antes.minimo", 1, "Inter", 21, TRUE),
    Rule("R$ CCCC", "depois.energia", 1, "Inter Bold", 21, TRUE),
    Rule("R$ DDDD", "savings", 1, "Inter Bold", 21, TRUE),
    Rule("R$ DDDB", "savings", 1, "Inter Bold", 21, TRUE),
    Rule("R$ EEEE", "savings", 1, "Inter Bold", 37, TRUE),
    Rule("R$ EEEB", "savings", 1, "Inter Bold", 21, TRUE),
    Rule("R$ FFFF", "savings", 12, "Inter Bold", 37, TRUE),
    Rule("R$ GGGG", "savings", 12 * 5, "Inter Bold", 37, TRUE),
    Rule("R$ HHHH", "antes.energia", 1, "Inter", 21, TRUE),
    Rule("R$ IIII", "antes.iluminacao", 1, "Inter", 21, TRUE),
    Rule("R$ CDCD", "antes.minimo", 1, "Inter", 21, TRUE),
    Rule("R$ CICI", "antes.impostos", 1, "Inter", 21, TRUE) >>

\* the if / elif chain that follows it, in source order
ChainRules == <<
    Rule("DATA: DDDDDDD", "data", 1, "Arial", 24, FALSE),
    Rule("XX%", "desconto", 1, "Inter Bold", 20, TRUE),
    Rule("YY%", "desconto", 1, "Inter Bold", 21, TRUE),
    Rule("R$ AAAA", "antes.total", 1, "Inter Bold", 26, TRUE),
    Rule("R$ AAAB", "antes.total", 1, "Inter Bold", 21, TRUE),
    Rule("R$ BBBB", "antes.minimo", 1, "Inter Bold", 21, TRUE),
    Rule(" R$ aBBa", "antes.minimo", 1, "Inter", 21, TRUE),
    Rule("R$ CCCC", "depois.energia", 1, "Inter Bold", 21, TRUE),
    Rule("R$ DDDD", "savings", 1, "Inter Bold", 21, TRUE),
    Rule("R$ DDDB", "savings", 1, "Inter Bold", 21, TRUE),
    Rule("R$ EEEE", "savings", 1, "Inter Bold", 37, TRUE),
    Rule("R$ EEEB", "savings", 1, "Inter Bold", 21, TRUE),
    Rule("R$ FFFF", "savings", 12, "Inter Bold", 37, TRUE),
    Rule("R$ GGGG", "savings", 12 * 5, "Inter Bold", 37, TRUE),
    Rule("R$ HHHH", "antes.energia", 1, "Inter", 21, TRUE),
    Rule("R$ IIII", "antes.iluminacao", 1, "Inter", 21, TRUE),
    Rule("R$ CDCD", "antes.minimo", 1, "Inter", 21, TRUE),
    Rule("R$ CICI", "antes.impostos", 1, "Inter", 21, TRUE) >>

\* the catalog: every rule, in source order
Rules == <<ClienteRule>> \o ChainRules

\* ChainBranch comparing each pattern without its last character
RECURSIVE ChainBranchLoose(_, _, _)
ChainBranchLoose(text, rules, i) ==
    IF i > Len(rules) THEN 0
    ELSE IF startswith(text, SubSeq(rules[i].pattern, 1, Len(rules[i].pattern) - 1))
    THEN i
    ELSE ChainBranchLoose(text, rules, i + 1)

\* the branch of an if / elif chain over `rules` that `text` takes: the index
\* of the first rule whose pattern text starts with, 0 when it takes none
RECURSIVE ChainBranch(_, _, _)
ChainBranch(text, rules, i) ==
    IF i > Len(rules) THEN 0
    ELSE IF startswith(text, rules[i].pattern) THEN i
    ELSE ChainBranch(text, rules, i + 1)

\* the arguments every rule reads
Context(client, discount, conta_antes, conta_depois, today) ==
    [client |-> client, discount |-> discount, conta_antes |-> conta_antes,
     conta_depois |-> conta_depois, today |-> today]

\* savings = conta_antes['total'] - conta_depois['total']
Savings(conta_antes, conta_depois) == FSub(conta_antes.total, conta_depois.total)

\* SavingsValue with the scale factor dropped
SavingsValueUnscaled(mult, savings) == savings

\* savings as the rule scales it: savings, 12 * savings, 12 * 5 * savings
SavingsValue(mult, savings) ==
    IF mult = 1 THEN savings ELSE FMul(FromInt(mult), savings)

\* the value a "R$ ..." rule formats
RuleValue(rule, ctx) ==
    CASE rule.field = "antes.total" -> ctx.conta_antes.total
      [] rule.field = "antes.minimo" -> ctx.conta_antes.minimo
      [] rule.field = "antes.energia" -> ctx.conta_antes.energia
      [] rule.field = "antes.iluminacao" -> ctx.conta_antes.iluminacao
      [] rule.field = "antes.impostos" -> ctx.conta_antes.impostos
      [] rule.field = "depois.energia" -> ctx.conta_depois.energia
      [] rule.field = "savings" ->
            SavingsValue(rule.mult, Savings(ctx.conta_antes, ctx.conta_depois))

\* text1 of the rule's call of update_text_shape
RuleText(rule, ctx) ==
    CASE rule.field = "cliente" -> "CLIENTE: " \o ctx.client
      [] rule.field = "data" -> "DATA: " \o strftime(ctx.today)
      [] rule.field = "desconto" -> IntStr(ctx.discount) \o "%"
      [] OTHER -> "R$ " \o format_money_br(RuleValue(rule, ctx))

ApplyRule(shape, rule, ctx) ==
    update_text_shape(shape, RuleText(rule, ctx), rule.font, rule.size, rule.center)

\* logger.error(f"Error updating text shape with text '{text[:20]}...': ...")
UpdateError(text) == [logger |-> "_update_text_shape", about |-> Snippet(text)]

Logged(raised, text) == IF raised THEN <<UpdateError(text)>> ELSE <<>>

\* the if / elif chain from "DATA: DDDDDDD" on, taking branch k (0: none),
\* on the shape the leading `if` left
AfterChain(shape, applied, text, k, ctx) ==
    IF k = 0
    THEN [shape |-> shape, applied |-> applied, logged |-> <<>>]
    ELSE [shape |-> ApplyRule(shape, ChainRules[k], ctx).shape,
          applied |-> applied \o <<ChainRules[k].pattern>>,
          logged |-> Logged(ApplyRule(shape, ChainRules[k], ctx).raised, text)]

\* the try block after the leading `if` gave r1 (applied: the rules run so far)
AfterCliente(r1, applied, text, ctx) ==
    IF r1.raised
    THEN [shape |-> r1.shape, applied |-> applied, logged |-> <<UpdateError(text)>>]
    ELSE AfterChain(r1.shape, applied, text, ChainBranch(text, ChainRules, 1), ctx)

\* _update_text_shape: the shape afterwards, the patterns of the rules whose
\* branch ran, and what the except clause logged
UpdateTextShape(shape, text, ctx) ==
    IF startswith(text, ClienteRule.pattern)
    THEN AfterCliente(ApplyRule(shape, ClienteRule, ctx),
                      <<ClienteRule.pattern>>, text, ctx)
    ELSE AfterCliente([shape |-> shape, raised |-> FALSE], <<>>, text, ctx)

\* the body of the loop of _update_slide for a shape whose reads succeed
UpdateSlideShape(shape, ctx) ==
    IF shape.shape_type = "TEXT_BOX" /\ shape.has_text_frame
    THEN UpdateTextShape(shape, strip(ShapeText(shape)), ctx)
    ELSE [shape |-> shape, applied |-> <<>>, logged |-> <<>>]

\* shape.shape_type raises
ReadRaises(shape) == shape.shape_type = "UNSUPPORTED"

\* ------------------------------------------------------------------------
\* Inputs: client infos and template decks
\* ------------------------------------------------------------------------

\* most units of consumption of one client
MaxUcs == 2

\* most slides of a template, most shapes of a slide
MaxSlides == 2

MaxShapes == 2

\* days (of one month) the clock can show
MaxDay == 2

None == <<>>

Some(v) == <<v>>

Infos(cliente, desconto, custo, consumo, n_ucs, cip) ==
    [cliente |-> cliente, desconto |-> desconto, custo_disponibilidade |-> custo,
     consumo |-> consumo, n_ucs |-> n_ucs, cip |-> cip]

\* inputs of the calculator specification
CalcInfos ==
    { Infos("ACME", d, t, c, n, p) :
        d \in {0, 10, 20, 25, 50, 100},
        t \in ConnectionTypes \cup {"Tetrafásico"},
        c \in {0, 50, 100, 150, 250, 400, 1000},
        n \in 1..MaxUcs,
        p \in {0, 30} }

\* inputs of the rendering specification
RenderInfos ==
    { Infos("ACME", 20, "Trifásico", 1000, 1, 30),
      Infos("ACME", 0, "Monofásico", 50, MaxUcs, 0),
      Infos("ACME", 100, "Bifásico", 250, 1, 30),
      Infos("ACME", 20, "", 1000, 1, 30) }

\* a text box of one paragraph of one run
Box(t) == TextBox(<<Para(<<Run(t)>>)>>)

PlaceholderTexts ==
    { Rules[i].pattern : i \in 1..Len(Rules) }
    \cup { "R$ AAAB extra", "  R$ AAAA \n", "XX% de desconto", "Proposta",
           "R$", "", "cliente: PPPPPP", "DATA: DDDDDDD\t" }

Picture ==
    [shape_type |-> "PICTURE", has_text_frame |-> FALSE, word_wrap |-> FALSE,
     paragraphs |-> <<>>, fault |-> "none"]

Unsupported == [Picture EXCEPT !.shape_type = "UNSUPPORTED"]

\* the shapes templates are made of
Pool ==
    { Box(t) : t \in PlaceholderTexts }
    \cup { TextBox(<<Para(<<Run("R$ "), Run("AAAA")>>)>>),
           TextBox(<<Para(<<>>), Para(<<Run("R$ FFFF")>>)>>),
           TextBox(<<Para(<<Run("R$ EEEE")>>), Para(<<Run("por mês")>>)>>),
           TextBox(<<Para(<<>>)>>),
           TextBox(<<>>),
           [Box("R$ AAAA") EXCEPT !.shape_type = "AUTO_SHAPE"],
           [Box("R$ AAAA") EXCEPT !.fault = "frame"],
           [Box("XX%") EXCEPT !.fault = "font"],
           [Box("Proposta") EXCEPT !.fault = "font"],
           Picture,
           Unsupported }

\* the shapes around the one that varies
Fillers == { Box("R$ AAAA"), Box("DATA: DDDDDDD") }

\* n slides of k shapes: filler everywhere but for shape s at (i, j)
Deck(n, k, filler, i, j, s) ==
    [a \in 1..n |-> [b \in 1..k |-> IF a = i /\ b = j THEN s ELSE filler]]

Templates ==
    { <<>>, << <<>> >> }
    \cup UNION { UNION { { Deck(n, k, f, i, j, s) :
                             i \in 1..n, j \in 1..k, s \in Pool, f \in Fillers } :
                         k \in 1..MaxShapes } :
                 n \in 1..MaxSlides }

CalcTemplates ==
    { << <<Box("R$ AAAA"), Box("R$ CCCC"), Box("R$ DDDD"), Box("R$ DDDB")>>,
         <<Box("R$ EEEE"), Box("R$ EEEB"), Box("R$ FFFF"), Box("R$ GGGG")>> >>,
      << <<Box("R$ GGGG"), Unsupported>> >> }

\* shapes and texts of direct calls of _update_text_shape
CallShapes == { s \in Pool : s.has_text_frame }

CallTexts == { "R$ AAAA", "XX% de desconto", "CLIENTE: PPPPPP", "Proposta", "" }

\* ------------------------------------------------------------------------
\* State
\* ------------------------------------------------------------------------

VARIABLES
    infos,          \* the argument infos of powerpoint_edit
    template,       \* the deck the argument buffer holds
    today,          \* the day datetime.now() shows
    render,         \* "first" or "second" call of powerpoint_edit
    pc,             \* where the call is
    conta_antes,    \* None until calculated
    conta_depois,
    presentation,   \* ppt_updater.presentation, None until loaded
    slide_i,        \* position of the loops of update_presentation
    shape_i,
    visited,        \* positions whose loop body ran to its end
    last,           \* the last shape resolved: before, after, rules applied
    log,            \* what logger.error recorded
    output,         \* the deck powerpoint_edit returned, None if none
    prev_output,    \* output and day of the first call, for the second
    prev_day,
    arg_text        \* argument text of a direct call of _update_text_shape

vars == <<infos, template, today, render, pc, conta_antes, conta_depois,
          presentation, slide_i, shape_i, visited, last, log, output,
          prev_output, prev_day, arg_text>>

inputs == <<infos, template, arg_text>>

\* logger.error(f"Error in powerpoint_edit: {str(e)}")
EditError(what) == [logger |-> "powerpoint_edit", about |-> what]

Fresh ==
    /\ pc = "start"
    /\ conta_antes = None
    /\ conta_depois = None
    /\ presentation = None
    /\ slide_i = 0
    /\ shape_i = 0
    /\ visited = {}
    /\ last = None
    /\ log = <<>>
    /\ output = None

Init ==
    /\ infos \in RenderInfos
    /\ template \in Templates
    /\ today = 1
    /\ render = "first"
    /\ prev_output = None
    /\ prev_day = 0
    /\ arg_text = ""
    /\ Fresh

InitCalc ==
    /\ infos \in CalcInfos
    /\ template \in CalcTemplates
    /\ today = 1
    /\ render = "first"
    /\ prev_output = None
    /\ prev_day = 0
    /\ arg_text = ""
    /\ Fresh

\* ------------------------------------------------------------------------
\* powerpoint_edit, step by step
\* ------------------------------------------------------------------------

\* calculator.calculate_bill_before(...) returns
CalculateBillBefore ==
    /\ pc = "start"
    /\ ~BillRaises(infos.custo_disponibilidade)
    /\ conta_antes' = Some(calculate_bill_before(infos.cip,
            infos.custo_disponibilidade, infos.consumo, infos.n_ucs))
    /\ pc' = "antes"
    /\ UNCHANGED <<inputs, today, render, conta_depois, presentation, slide_i,
                   shape_i, visited, last, log, output, prev_output, prev_day>>

\* calculator.calculate_bill_before(...) raises ValueError: logged, re-raised
CalculateBillBeforeRaises ==
    /\ pc = "start"
    /\ BillRaises(infos.custo_disponibilidade)
    /\ log' = Append(log, EditError("Custo de disponibilidade inválido."))
    /\ pc' = "failed"
    /\ UNCHANGED <<inputs, today, render, conta_antes, conta_depois, presentation,
                   slide_i, shape_i, visited, last, output, prev_output, prev_day>>

\* calculator.calculate_bill_after(...)
CalculateBillAfter ==
    /\ pc = "antes"
    /\ conta_depois' = Some(calculate_bill_after(infos.cip,
            infos.custo_disponibilidade, infos.consumo, infos.n_ucs, infos.desconto))
    /\ pc' = "depois"
    /\ UNCHANGED <<inputs, today, render, conta_antes, presentation, slide_i,
                   shape_i, visited, last, log, output, prev_output, prev_day>>

\* PowerPointUpdater(buffer): the presentation is a copy of the template
OpenPresentation ==
    /\ pc = "depois"
    /\ presentation' = Some(template)
    /\ slide_i' = 1
    /\ shape_i' = 1
    /\ pc' = "update"
    /\ UNCHANGED <<inputs, today, render, conta_antes, conta_depois, visited,
                   last, log, output, prev_output, prev_day>>

Slides == presentation[1]

AtShape ==
    /\ pc = "update"
    /\ slide_i <= Len(Slides)
    /\ shape_i <= Len(Slides[slide_i])

\* one turn of the loop of _update_slide
UpdateShape ==
    /\ AtShape
    /\ ~ReadRaises(Slides[slide_i][shape_i])
    /\ \E r \in { UpdateSlideShape(Slides[slide_i][shape_i],
                      Context(infos.cliente, infos.desconto,
                              conta_antes[1], conta_depois[1], today)) } :
           /\ presentation' = Some([Slides EXCEPT ![slide_i][shape_i] = r.shape])
           /\ log' = log \o r.logged
           /\ last' = Some([shape |-> Slides[slide_i][shape_i], result |-> r.shape,
                            applied |-> r.applied, logged |-> r.logged])
    /\ visited' = visited \cup {<<slide_i, shape_i>>}
    /\ shape_i' = shape_i + 1
    /\ UNCHANGED <<inputs, today, render, pc, conta_antes, conta_depois, slide_i,
                   output, prev_output, prev_day>>

\* a read of the shape in _update_slide raises: nothing catches it before
\* the except clause of powerpoint_edit, which logs and re-raises
UpdateShapeRaises ==
    /\ AtShape
    /\ ReadRaises(Slides[slide_i][shape_i])
    /\ log' = Append(log, EditError("shape_type"))
    /\ pc' = "failed"
    /\ UNCHANGED <<inputs, today, render, conta_antes, conta_depois, presentation,
                   slide_i, shape_i, visited, last, output, prev_output, prev_day>>

\* the loop over slide.shapes ends: next slide of update_presentation
NextSlide ==
    /\ pc = "update"
    /\ slide_i <= Len(Slides)
    /\ shape_i > Len(Slides[slide_i])
    /\ slide_i' = slide_i + 1
    /\ shape_i' = 1
    /\ UNCHANGED <<inputs, today, render, pc, conta_antes, conta_depois,
                   presentation, visited, last, log, output, prev_output, prev_day>>

\* ppt_updater.save_presentation() and return
SavePresentation ==
    /\ pc = "update"
    /\ slide_i > Len(Slides)
    /\ output' = Some(Slides)
    /\ pc' = "done"
    /\ UNCHANGED <<inputs, today, render, conta_antes, conta_depois, presentation,
                   slide_i, shape_i, visited, last, log, prev_output, prev_day>>

\* the caller renders the same infos again, on a fresh copy of the template,
\* the same day or a later one
RenderAgain ==
    /\ pc \in {"done", "failed"}
    /\ render = "first"
    /\ render' = "second"
    /\ prev_output' = output
    /\ prev_day' = today
    /\ today' \in today..MaxDay
    /\ pc' = "start"
    /\ conta_antes' = None
    /\ conta_depois' = None
    /\ presentation' = None
    /\ slide_i' = 0
    /\ shape_i' = 0
    /\ visited' = {}
    /\ last' = None
    /\ log' = <<>>
    /\ output' = None
    /\ UNCHANGED inputs

Next ==
    \/ CalculateBillBefore
    \/ CalculateBillBeforeRaises
    \/ CalculateBillAfter
    \/ OpenPresentation
    \/ UpdateShape
    \/ UpdateShapeRaises
    \/ NextSlide
    \/ SavePresentation
    \/ RenderAgain

Spec == Init /\ [][Next]_vars

SpecCalc == InitCalc /\ [][Next]_vars

\* ------------------------------------------------------------------------
\* _update_text_shape called on its own, with any shape and any text
\* ------------------------------------------------------------------------

InitResolve ==
    /\ infos \in { i \in RenderInfos : ~BillRaises(i.custo_disponibilidade) }
    /\ template = <<>>
    /\ today = 1
    /\ render = "first"
    /\ prev_output = None
    /\ prev_day = 0
    /\ arg_text \in CallTexts
    /\ pc = "call"
    /\ conta_antes = Some(calculate_bill_before(infos.cip,
            infos.custo_disponibilidade, infos.consumo, infos.n_ucs))
    /\ conta_depois = Some(calculate_bill_after(infos.cip,
            infos.custo_disponibilidade, infos.consumo, infos.n_ucs, infos.desconto))
    /\ \E s \in CallShapes : presentation = Some(<< <<s>> >>)
    /\ slide_i = 1
    /\ shape_i = 1
    /\ visited = {}
    /\ last = None
    /\ log = <<>>
    /\ output = None

CallUpdateTextShape ==
    /\ pc = "call"
    /\ \E r \in { UpdateTextShape(Slides[1][1], arg_text,
                      Context(infos.cliente, infos.desconto,
                              conta_antes[1], conta_depois[1], today)) } :
           /\ presentation' = Some(<< <<r.shape>> >>)
           /\ log' = log \o r.logged
           /\ last' = Some([shape |-> Slides[1][1], result |-> r.shape,
                            applied |-> r.applied, logged |-> r.logged])
    /\ pc' = "returned"
    /\ UNCHANGED <<inputs, today, render, conta_antes, conta_depois, slide_i,
                   shape_i, visited, output, prev_output, prev_day>>

NextResolve == CallUpdateTextShape

SpecResolve == InitResolve /\ [][NextResolve]_vars

\* ------------------------------------------------------------------------
\* Properties
\* ------------------------------------------------------------------------

ValidConnection == infos.custo_disponibilidade \in ConnectionTypes

\* consumptionKwh - unitCount * 100
NetConsumption == infos.consumo - infos.n_ucs * 100

\* 1 - discountPercent / 100
DiscountFactor == FSub(FOne, FromRatio(infos.desconto, 100))

\* C1: the after-discount breakdown's energyCost is before.energyCost *
\* (1 - discountPercent/100), and 0 when discountPercent = 100.
C1_AfterEnergyDiscounted ==
    conta_depois # None =>
        /\ conta_depois[1].energia = FMul(conta_antes[1].energia, DiscountFactor)
        /\ (infos.desconto = 100 => conta_depois[1].energia = FZero)

\* C2: after.total = before.taxes + before.publicIlluminationCost +
\* before.minimumCost + before.energyCost * (1 - discountPercent/100), and with
\* discountPercent = 0 after.total equals before.total.
C2_AfterTotal ==
    conta_depois # None =>
        /\ conta_depois[1].total =
              FAdd(FAdd(FAdd(conta_antes[1].impostos, conta_antes[1].iluminacao),
                        conta_antes[1].minimo),
                   FMul(conta_antes[1].energia, DiscountFactor))
        /\ (infos.desconto = 0 => conta_depois[1].total = conta_antes[1].total)

\* the allowance the specification gives each connection type
SpecAllowance ==
    CASE infos.custo_disponibilidade = "Trifásico" -> 100
      [] infos.custo_disponibilidade = "Bifásico" -> 50
      [] infos.custo_disponibilidade = "Monofásico" -> 30

\* C3: for a recognised connection type calculate_bill_before returns
\* energyCost = (consumption - units*100) * realInjectedTariff, minimumCost =
\* allowance * units * suppliedTariff (100 / 50 / 30), taxes = (consumption -
\* units*100) * nonOffsettableTaxes and total = their sum with the public
\* illumination cost; consumption below units*100 is accepted and gives
\* negative energyCost and taxes.
C3_BeforeFormulas ==
    /\ (ValidConnection /\ pc # "start") => conta_antes # None
    /\ conta_antes # None =>
        /\ ValidConnection
        /\ conta_antes[1].energia = FMul(FromInt(NetConsumption), tarifa_injetada_real)
        /\ conta_antes[1].minimo =
              FMul(FromInt(SpecAllowance * infos.n_ucs), tarifa_fornecida)
        /\ conta_antes[1].iluminacao = FromInt(infos.cip)
        /\ conta_antes[1].impostos =
              FMul(FromInt(NetConsumption), impostos_n_compoensaveis)
        /\ conta_antes[1].total =
              FAdd(FAdd(FAdd(conta_antes[1].energia, conta_antes[1].minimo),
                        conta_antes[1].iluminacao),
                   conta_antes[1].impostos)
        /\ (NetConsumption < 0 =>
               FIsNeg(conta_antes[1].energia) /\ FIsNeg(conta_antes[1].impostos))

C3_Witness ==
    /\ conta_antes # None
    /\ infos.custo_disponibilidade = "Bifásico"
    /\ NetConsumption < 0

\* C4: with an unrecognised connection type the render fails with the
\* invalid-connection-type error, no presentation is ever loaded or written
\* and nothing is returned.
C4_InvalidConnectionAborts ==
    ~ValidConnection =>
        /\ pc \in {"start", "failed"}
        /\ presentation = None
        /\ visited = {}
        /\ last = None
        /\ output = None
        /\ (pc = "failed" =>
               log = <<EditError("Custo de disponibilidade inválido.")>>)

C4_Witness == ~ValidConnection /\ pc = "failed" /\ render = "second"

\* every position of the template
Positions ==
    UNION { { <<i, j>> : j \in 1..Len(template[i]) } : i \in 1..Len(template) }

\* C5: a failure while processing one shape never aborts the render: every
\* other shape is still visited and the render goes on to serialization.
C5_ShapeFailureNeverAborts ==
    /\ (ValidConnection => pc # "failed")
    /\ (pc = "done" => visited = Positions)

\* p is a prefix of t
IsPrefix(p, t) == \E n \in 0..Len(t) : SubSeq(t, 1, n) = p

\* the rules of the catalog whose pattern is a prefix of text
Matching(text) == { i \in 1..Len(Rules) : IsPrefix(Rules[i].pattern, text) }

Least(S) == CHOOSE i \in S : \A k \in S : i <= k

\* the shape last resolved, as read by _update_slide
LastText == strip(ShapeText(last[1].shape))

C7_FirstMatchingRule ==
    (last # None /\ last[1].shape.shape_type = "TEXT_BOX") =>
        /\ Matching(LastText) = {} =>
              last[1].applied = <<>> /\ last[1].result = last[1].shape
        /\ Matching(LastText) # {} =>
              last[1].applied = <<Rules[Least(Matching(LastText))].pattern>>
        /\ (LastText = "R$ AAAB extra" /\ last[1].shape.fault = "none") =>
              /\ last[1].applied = <<"R$ AAAB">>
              /\ last[1].result.paragraphs[1].runs[1].font_size = 21
              /\ last[1].result.paragraphs[1].runs[1].text =
                    "R$ " \o format_money_br(conta_antes[1].total)

C7_Witness == last # None /\ LastText = "R$ AAAB extra"

\* the template holds a text box the date rule matches
HasDateShape ==
    \E pos \in Positions :
        /\ template[pos[1]][pos[2]].shape_type = "TEXT_BOX"
        /\ IsPrefix("DATA: DDDDDDD", strip(ShapeText(template[pos[1]][pos[2]])))

SecondRenderOver == render = "second" /\ pc \in {"done", "failed"}

\* C8 as stated: two renders of the same input against two copies of the same
\* template produce identical output, whatever else differs between the runs.
C8_RendersIdentical == SecondRenderOver => output = prev_output

\* C8 amended: ... provided both renders run on the same day, or the template
\* holds no text box whose trimmed text starts with "DATA: DDDDDDD".
C8_RendersIdenticalSameDay ==
    (SecondRenderOver /\ (today = prev_day \/ ~HasDateShape)) =>
        output = prev_output

C8_Witness ==
    /\ SecondRenderOver
    /\ pc = "done"
    /\ today = prev_day
    /\ HasDateShape
    /\ output # Some(template)

\* the last shape was written by a rule, without error, into an existing run
WroteIntoRun ==
    /\ last # None
    /\ last[1].applied # <<>>
    /\ last[1].logged = <<>>
    /\ last[1].shape.paragraphs # <<>>
    /\ last[1].shape.paragraphs[1].runs # <<>>

\* C9: when the first paragraph already has a run, writing the value replaces
\* only that run's text and keeps the run's font name and size.
C9_ExistingRunFormattingKept ==
    WroteIntoRun =>
        /\ last[1].result.paragraphs[1].runs[1].font_name =
              last[1].shape.paragraphs[1].runs[1].font_name
        /\ last[1].result.paragraphs[1].runs[1].font_size =
              last[1].shape.paragraphs[1].runs[1].font_size

\* the multiplier the claim gives each savings placeholder
SavingsMultiplier ==
    [p \in {"R$ DDDD", "R$ DDDB", "R$ EEEE", "R$ EEEB", "R$ FFFF", "R$ GGGG"} |->
        CASE p = "R$ FFFF" -> 12
          [] p = "R$ GGGG" -> 60
          [] OTHER -> 1]

\* m times v, as a float
Times(m, v) == IF m = 1 THEN v ELSE FMul(FromInt(m), v)

\* C10: every savings placeholder renders a fixed multiple of before.total -
\* after.total (1 for the monthly ones, 12 for the annual, 60 for the 5-year),
\* and rendering leaves both breakdowns as the calculator returned them.
C10_SavingsMultiples ==
    /\ pc \in {"update", "done"} =>
          /\ conta_antes = Some(calculate_bill_before(infos.cip,
                infos.custo_disponibilidade, infos.consumo, infos.n_ucs))
          /\ conta_depois = Some(calculate_bill_after(infos.cip,
                infos.custo_disponibilidade, infos.consumo, infos.n_ucs,
                infos.desconto))
    /\ (WroteIntoRun /\ last[1].applied[1] \in DOMAIN SavingsMultiplier) =>
          last[1].result.paragraphs[1].runs[1].text =
              "R$ " \o format_money_br(
                  Times(SavingsMultiplier[last[1].applied[1]],
                        FSub(conta_antes[1].total, conta_depois[1].total)))

C10_Witness ==
    /\ WroteIntoRun
    /\ last[1].applied = <<"R$ GGGG">>
    /\ conta_antes[1].total # conta_depois[1].total

\* what may surround a placeholder in a shape's text
Paddings == {"", " ", "  ", "\n", "\t", " \n"}

\* shape texts tried for each rule: its pattern, and its pattern without the
\* whitespace it starts with, alone or followed by more text, between paddings
TextsFor(p) ==
    { l \o q \o x \o r : l \in Paddings, r \in Paddings,
                         q \in {p, LStrip(p)}, x \in {"", " extra", "x"} }

ShapeTexts == PlaceholderTexts \cup UNION { TextsFor(Rules[i].pattern) : i \in 1..Len(Rules) }

\* the resolver, as of the current state, applies exactly rule i to a text box
\* reading t
AppliesOnly(i, t) ==
    UpdateSlideShape(Box(t), Context(infos.cliente, infos.desconto,
                                     conta_antes[1], conta_depois[1], today)).applied
        = <<Rules[i].pattern>>

Reachable(i) == \E t \in ShapeTexts : AppliesOnly(i, t)

\* C11: no rule of the dispatch is shadowed or unreachable: whenever the
\* resolver is at work, every rule of the catalog has a shape text which, once
\* trimmed by _update_slide, makes that rule, and no earlier one, be applied.
C11_EveryRuleReachable ==
    pc = "update" => \A i \in 1..Len(Rules) : Reachable(i)

\* every rule whose pattern starts with no space is applied to a text box
\* reading its pattern
C11_UnpaddedRulesReachable ==
    pc = "update" =>
        \A i \in 1..Len(Rules) :
            Head(Rules[i].pattern) # " " => AppliesOnly(i, Rules[i].pattern)

\* the texts _update_slide hands to _update_text_shape
TrimmedTexts == { strip(t) : t \in ShapeTexts }

\* a trimmed text starts with no whitespace, so with no pattern that starts
\* with a space
C11_TrimmedStartsUnpadded ==
    \A t \in TrimmedTexts :
        /\ t = "" \/ Head(t) \notin Whitespace
        /\ ~startswith(t, " R$ aBBa")

\* no render ever takes the " R$ aBBa" branch
C11_PaddedRuleNeverApplied ==
    last # None => \A k \in 1..Len(last[1].applied) : last[1].applied[k] # " R$ aBBa"

\* a render resolved the very text of the " R$ aBBa" placeholder
C11_PaddedPlaceholderSeen ==
    last # None /\ last[1].shape = Box(" R$ aBBa") /\ last[1].applied = <<>>

=============================================================================
